---- MODULE Spec2Model ----
(***************************************************************************)
(* Model of @vainjs/logger: the Logger facade, the UploadManager (upload   *)
(* coordinator with its in-flight guard), the IndexedDB log store, the     *)
(* LogUploader sink and the IdleDetector.  Every await of the source is a  *)
(* suspension point: the code between two awaits is one atomic step.       *)
(***************************************************************************)
EXTENDS Integers, Sequences, FiniteSets, TLC

\* ------------------------------------------------------------------ bounds
MaxLogs == 2       \* handleNewLog calls (one log record each)
MaxStored == 1     \* records left un-uploaded in IndexedDB by an earlier session
MaxCalls == 2      \* Logger-level logging calls
MaxForce == 1      \* forceUpload calls
MaxBatch == 2      \* largest configured batchSize
MaxUpdates == 1    \* updateConfig calls
MaxReconfigCalls == 1  \* logging calls made while the Logger is reconfigured
MaxFairCalls == 1  \* handleNewLog calls of the specification with fairness
MaxDays == 1       \* days that pass in a session
MaxRetention == 1  \* largest configured logExpiration

DayMs == 24 * 60 * 60 * 1000
Epoch == 2 * DayMs   \* Date.now() when the session starts
IntervalMs == 24 * 60 * 60 * 1000   \* intervalHours = 24

\* the instants at which the clock is observed
Times == {Epoch + d * DayMs + e : d \in 0..MaxDays, e \in {0, 1}}

Min(a, b) == IF a < b THEN a ELSE b
Max(a, b) == IF a > b THEN a ELSE b

Ids == 1..MaxLogs
OldIds == (1 - MaxStored)..0
LogIds == 1..Min(MaxCalls, MaxLogs)
ForceIds == 1..MaxForce
Gens == 0..MaxUpdates   \* the UploadManagers a Logger creates, in order

\* iterations of one sweep's loop that are followed: more than any sweep
\* with a positive batch size makes
MaxIter == MaxLogs + MaxStored + 1

Strategies == {"idle", "immediate"}
Levels == {"info", "debug"}
AllLevels == {"info", "warn", "error", "debug", "trace"}   \* LogLevel
\* what awaits an uploadLogs call that goes on to its request: a response
\* with response.ok, a response with another status, a fetch that rejects,
\* a JSON.stringify that throws
NetOutcomes == {"ok", "status", "error", "serialize"}

VARIABLES
  config,        \* Logger.config (Required<LoggerConfig>)
  hasWindow,     \* typeof window !== 'undefined'
  configCall,    \* history: the latest of updateConfig / getConfig / a write
                 \* to the object getConfig returned (op), the configuration
                 \* before the latest updateConfig and its argument, the
                 \* object the latest getConfig returned and whether it is
                 \* the Logger's own config object
  upload,        \* history: the latest uploadLogs call made on a LogUploader
                 \* directly: its serverUrl, logs, the network's answer and
                 \* the boolean it resolved to
  now,           \* Date.now(), in milliseconds
  db,            \* IndexedDBStorage.db is open
  store,         \* object store 'logs': id -> record (uploaded, timestamp)
  initialized,   \* Logger.initialized
  cleanupInterval, \* CleanupManager.cleanupInterval is set
  liveIntervals, \* the setInterval timers not cleared, oldest first: the
                 \* expirationDays each one passes to performCleanup and
                 \* the time its next callback is due
  cleanups,      \* cleanupExpiredLogs calls in flight: their expirationTime
  cur,           \* Logger.uploadManager: the manager in use
  updates,       \* updateConfig calls so far
  manager,       \* g -> UploadManager fields: strategy, batchSize and its
                 \* uploader's serverUrl
  isUploading,   \* g -> UploadManager.isUploading
  idleTimer,     \* g -> IdleDetector: a timeout is pending
  isIdle,        \* g -> IdleDetector.isIdle
  onIdleCallback, \* g -> IdleDetector.onIdleCallback is registered
  listening,     \* g -> the document activity listeners are attached
  torn,          \* g -> history: IdleDetector.destroy has run
  quietFires,    \* g -> history: onIdle callbacks since the last activity
  initCall,      \* the explicit Logger.init() call
  logCall,       \* logging calls: id -> [pc, via, success, ...]; level is
                 \* kept while the level filter is still ahead of the call
  console,       \* history: the latest printToConsole call: the level in
                 \* its message and the console method
  forceCall,     \* forceUpload calls: f -> [pc, acquired] and, as history,
                 \* pend: the ids pending at the call (had: there were some)
  sweep,         \* g -> the uploadPendingLogs invocation holding the guard: its
                 \* locals (snap, i, success) and, as history, sent: the
                 \* batches sent, failed: the first failed batch, err: a
                 \* store rejection; once done only n = Len(snap),
                 \* calls = Len(sent), failed and err are kept
  acked,         \* history: ids of batches the sink reported success for
  dropped,       \* history: ids whose immediate upload met a held guard
  faulted        \* history: a sink call or a store operation has failed

vars == <<config, hasWindow, configCall, upload, now, db, store, initialized, cleanupInterval,
          liveIntervals, cleanups, cur, updates, manager, isUploading, idleTimer, isIdle,
          onIdleCallback, listening, torn, quietFires, initCall, logCall,
          console, forceCall, sweep, acked, dropped, faulted>>

envVars == <<config, hasWindow, configCall, upload, now, cur, updates, manager>>
cleanupVars == <<cleanupInterval, liveIntervals, cleanups>>
idleVars == <<idleTimer, isIdle, onIdleCallback, listening, torn, quietFires>>
callVars == <<logCall, console>>

\* ----------------------------------------------------------------- helpers

\* Array.prototype.slice(start, end)
JsSlice(s, start, end) ==
  LET n == Len(s)
      from == IF start < 0 THEN Max(n + start, 0) ELSE Min(start, n)
      to == IF end < 0 THEN Max(n + end, 0) ELSE Min(end, n)
  IN SubSeq(s, from + 1, to)

Range(s) == {s[k] : k \in 1..Len(s)}

\* the result of store.getAll(): records in key order
RECURSIVE KeyOrder(_)
KeyOrder(S) ==
  IF S = {} THEN <<>>
  ELSE LET m == CHOOSE x \in S : \A y \in S : x <= y
       IN <<m>> \o KeyOrder(S \ {m})

\* types/config.ts
DEFAULT_CONFIG ==
  [serverUrl |-> "", debugMode |-> TRUE, uploadLogs |-> TRUE,
   logExpiration |-> 3, uploadStrategy |-> "idle", batchSize |-> 50]

mergeConfig(userConfig) ==
  [k \in DOMAIN DEFAULT_CONFIG |->
     IF k \in DOMAIN userConfig THEN userConfig[k] ELSE DEFAULT_CONFIG[k]]

\* ------------------------------------------------------- IndexedDBStorage
\* store.add(log): a new record, uploaded = false
SaveLogLosesOthers(st, log) ==
  [x \in {log.id} |-> [uploaded |-> log.uploaded, timestamp |-> log.timestamp]]
SaveLogStoresNothing(st, log) == st
saveLog(st, log) ==
  [x \in DOMAIN st \cup {log.id} |->
     IF x = log.id
     THEN [uploaded |-> log.uploaded, timestamp |-> log.timestamp]
     ELSE st[x]]

\* saveLog throws at the call when the database is not open (field threw of
\* the call); store.add fails on an existing key
SaveLogOverwrites(st, id) == FALSE
saveLogRejects(st, id) == id \in DOMAIN st

\* getAll() filtered by !log.uploaded
GetUnuploadedOldest(st) ==
  LET S == {x \in DOMAIN st : ~st[x].uploaded}
  IN KeyOrder({x \in S : \A y \in S : x <= y})
\* getAll() without the filter
GetAllLogs(st) == KeyOrder(DOMAIN st)
\* getAll() filtered by !log.uploaded
getUnuploadedLogs(st) == KeyOrder({x \in DOMAIN st : ~st[x].uploaded})

\* get + put of every id that is present; absent ids are skipped
MarkCreatesAbsent(st, ids) ==
  [x \in DOMAIN st \cup ids |->
     IF x \in DOMAIN st THEN [st[x] EXCEPT !.uploaded = @ \/ x \in ids]
     ELSE [uploaded |-> TRUE, timestamp |-> 0]]
MarkToggles(st, ids) ==
  [x \in DOMAIN st |->
     IF x \in ids THEN [st[x] EXCEPT !.uploaded = ~@] ELSE st[x]]
markAsUploaded(st, ids) ==
  [x \in DOMAIN st |->
     IF x \in ids THEN [st[x] EXCEPT !.uploaded = TRUE] ELSE st[x]]

\* IDBKeyRange.upperBound(expirationTime) on the timestamp index
upperBound(expirationTime, t) == t <= expirationTime

\* cleanupExpiredLogs once expirationTime is computed: the cursor over the
\* key range deletes each record it visits
cleanupExpiredLogs(st, expirationTime) ==
  [x \in {y \in DOMAIN st : ~upperBound(expirationTime, st[y].timestamp)}
     |-> st[x]]

\* ------------------------------------------------------------ LogUploader
\* uploadLogs without its check of the endpoint
UploadsWithoutEndpoint(serverUrl, logs, net) ==
  IF Len(logs) = 0 THEN TRUE ELSE net = "ok"

\* uploadLogs answering true to every response
UploadsOnAnyResponse(serverUrl, logs, net) ==
  IF serverUrl = "" THEN FALSE
  ELSE IF Len(logs) = 0 THEN TRUE
  ELSE net \in {"ok", "status"}

\* the try block of uploadLogs: the boolean it returns, or "throw" when
\* JSON.stringify throws or fetch rejects
TryRequest(net) ==
  CASE net = "ok" -> "true"
    [] net = "status" -> "false"
    [] OTHER -> "throw"

\* uploadLogs(logs): the boolean it resolves to; catch (error) returns false
uploadLogs(serverUrl, logs, net) ==
  IF serverUrl = "" THEN FALSE
  ELSE IF Len(logs) = 0 THEN TRUE
  ELSE LET r == TryRequest(net) IN
       IF r = "throw" THEN FALSE ELSE r = "true"

\* ---------------------------------------------------------- UploadManager
\* the guard check of uploadImmediately / uploadPendingLogs
GuardNeverHeld(flag) == FALSE
GuardHeld(flag) == flag

\* finally { this.isUploading = false }
FinallySkipped(flag) == flag
Finally(flag) == FALSE

\* if (success) { markAsUploaded(...) }
MarksAlways(success) == TRUE
MarksNever(success) == FALSE
MarksBatch(success) == success

\* else { break }
BreaksNever(success) == FALSE
BreaksAlways(success) == TRUE
BreaksLoop(success) == ~success

\* unuploadedLogs.slice(i, i + this.batchSize)
BatchShort(snap, i, b) == JsSlice(snap, i, i + b - 1)
Batch(snap, i, b) == JsSlice(snap, i, i + b)

\* i += this.batchSize
NextIndex(i, b) == i + b

\* Logger.log: try { ... } catch (error) { console.error(...) }
LogRethrows(ok) == IF ok THEN "resolved" ELSE "rejected"
LogSettles(ok) == "resolved"

\* how a call settles, by its outermost frame
Settle(via, ok) ==
  IF via = "handleNewLog"
  THEN (IF ok THEN "resolved" ELSE "rejected")
  ELSE LogSettles(ok)

NoSweep ==
  [pc |-> "none", owner |-> 0, snap |-> <<>>, i |-> 0, success |-> FALSE,
   sent |-> <<>>, failed |-> 0, err |-> FALSE, n |-> 0, calls |-> 0,
   skipped |-> {}]

\* a logging call; gen: the UploadManager whose handleNewLog it runs;
\* afterDestroy: the call was made on a destroyed Logger
NewCall(pc, level, via) ==
  [pc |-> pc, level |-> level, via |-> via, gen |-> cur, threw |-> ~db,
   success |-> FALSE, afterInitFailure |-> FALSE, afterDestroy |-> torn[cur],
   timestamp |-> now]

\* the LogEntry of call c: id, timestamp: getCurrentTimestamp(),
\* uploaded: false
LogEntry(c) ==
  [id |-> c, timestamp |-> logCall[c].timestamp, uploaded |-> FALSE]

NoCall ==
  [NewCall("idle", "", "handleNewLog") EXCEPT !.threw = FALSE, !.gen = 0,
                                              !.afterDestroy = FALSE,
                                              !.timestamp = 0]
NoPrint == [level |-> "", method |-> ""]
NoPartial == [k \in {} |-> ""]
NoConfigCall ==
  [op |-> "", before |-> NoPartial, partial |-> NoPartial,
   returned |-> NoPartial, shared |-> FALSE]
NoUpload == [serverUrl |-> "", logs |-> <<>>, net |-> "", result |-> FALSE]
NoForce == [pc |-> "idle", pend |-> {}, acquired |-> FALSE, had |-> FALSE]

\* ------------------------------------------------------------------- Init
\* new UploadManager(storage, uploader, strategy, batchSize); the uploader
\* is the Logger's at that time: new LogUploader(config.serverUrl)
NewManager(cfg) ==
  [strategy |-> cfg.uploadStrategy, batchSize |-> cfg.batchSize,
   serverUrl |-> cfg.serverUrl]

\* a manager the Logger has not created yet
NoManager == [strategy |-> "", batchSize |-> 0, serverUrl |-> ""]

\* the only manager created so far is g
Only(g, created, absent) == [h \in Gens |-> IF h = g THEN created ELSE absent]

NoRecord == [uploaded |-> FALSE, timestamp |-> 0]

\* the object store as an earlier session left it: old un-uploaded records
\* with their timestamps
StoreWith(stamps) ==
  [x \in DOMAIN stamps |-> [uploaded |-> FALSE, timestamp |-> stamps[x]]]

\* state after new Logger(userConfig) at time t; opened: init() has already
\* resolved
ConstructedAt(userConfig, opened, stamps, win, t) ==
  /\ config = mergeConfig(userConfig)
  /\ cur = 0
  /\ updates = 0
  /\ manager = Only(0, NewManager(config), NoManager)
  /\ hasWindow = win
  /\ upload = NoUpload
  /\ configCall = NoConfigCall
  /\ now = t
  /\ db = opened
  /\ store = StoreWith(stamps)
  /\ initialized = opened
  /\ cleanupInterval = FALSE
  /\ liveIntervals = <<>>
  /\ cleanups = {}
  /\ isUploading = [g \in Gens |-> FALSE]
  /\ idleTimer = Only(0, TRUE, FALSE)
  /\ isIdle = [g \in Gens |-> FALSE]
  /\ onIdleCallback = Only(0, config.uploadStrategy = "idle", FALSE)
  /\ listening = Only(0, win, FALSE)
  /\ torn = [g \in Gens |-> FALSE]
  /\ quietFires = [g \in Gens |-> 0]
  /\ initCall = "idle"
  /\ logCall = [c \in Ids |-> NoCall]
  /\ console = NoPrint
  /\ forceCall = [f \in ForceIds |-> NoForce]
  /\ sweep = [g \in Gens |-> NoSweep]
  /\ acked = {}
  /\ dropped = {}
  /\ faulted = FALSE

\* the same when the session starts at Epoch and the old records are as old
Constructed(userConfig, opened, old, win) ==
  ConstructedAt(userConfig, opened, [x \in old |-> Epoch], win, Epoch)

\* user configurations of the Logger-level specification
UserConfigs ==
  {[serverUrl |-> u, debugMode |-> d, uploadLogs |-> up, logExpiration |-> 0,
    uploadStrategy |-> s, batchSize |-> b] :
      u \in {"", "https://collector"}, d \in BOOLEAN, up \in BOOLEAN,
      s \in Strategies, b \in 1..MaxBatch}

\* a Logger just constructed, in a page (without a window its behaviours
\* are those of the page in which no activity event occurs)
InitLogger == \E uc \in UserConfigs : Constructed(uc, FALSE, {}, TRUE)

\* the UploadManager of an initialized Logger with uploads enabled, in a
\* page (window defined: activity events can re-arm the idle timer; without
\* a window the manager's behaviours are those in which none occurs)
ManagerConfigs == {uc \in UserConfigs : uc.debugMode /\ uc.uploadLogs}

Init ==
  \E uc \in ManagerConfigs, k \in 0..MaxStored :
    Constructed(uc, TRUE, (1 - k)..0, TRUE)

\* ------------------------------------------------------------ IdleDetector
\* resetTimer: clearTimeout of a pending timeout, then setTimeout
ResetTimerKeeps(pending) == pending
resetTimer(pending) == TRUE

\* the detector of manager g
DetectorOf(g) ==
  [idleTimer |-> idleTimer[g], isIdle |-> isIdle[g],
   onIdleCallback |-> onIdleCallback[g], listening |-> listening[g]]

\* IdleDetector.destroy: clearTimeout, cleanup() removes the listeners,
\* onIdleCallback = null
DestroyNothing(d) == d
DestroyKeepsTimer(d) ==
  [d EXCEPT !.listening = FALSE, !.onIdleCallback = FALSE]
destroy(d) ==
  [d EXCEPT !.idleTimer = FALSE, !.listening = FALSE,
            !.onIdleCallback = FALSE]

\* the prefix of uploadPendingLogs up to its first await; getUnuploadedLogs
\* throws at the call when the database is not open
UploadPendingLogsWith(g, owner, open) ==
  LET pend == {x \in DOMAIN store : ~store[x].uploaded} IN
  IF GuardHeld(isUploading[g])
  THEN /\ UNCHANGED <<isUploading, sweep>>
       /\ forceCall' = IF owner = 0 THEN forceCall
                       ELSE [forceCall EXCEPT ![owner] =
                               [pc |-> "resolved", pend |-> {},
                                acquired |-> FALSE,
                                had |-> pend # {}]]
  ELSE /\ isUploading' = [isUploading EXCEPT ![g] = TRUE]
       /\ sweep' = [sweep EXCEPT ![g] =
                      [NoSweep EXCEPT !.pc = "read", !.owner = owner,
                                      !.err = ~open]]
       /\ forceCall' = IF owner = 0 THEN forceCall
                       ELSE [forceCall EXCEPT ![owner] =
                               [pc |-> "run", pend |-> pend,
                                acquired |-> TRUE,
                                had |-> pend # {}]]

UploadPendingLogs(g, owner) == UploadPendingLogsWith(g, owner, db)

\* the setTimeout callback of resetTimer
TimerFire(g) ==
  /\ idleTimer[g]
  /\ idleTimer' = [idleTimer EXCEPT ![g] = FALSE]
  /\ IF ~isIdle[g]
     THEN /\ isIdle' = [isIdle EXCEPT ![g] = TRUE]
          /\ IF onIdleCallback[g]
             THEN /\ UploadPendingLogs(g, 0)
                  /\ quietFires' = [quietFires EXCEPT ![g] = Min(@ + 1, 2)]
             ELSE UNCHANGED <<isUploading, sweep, forceCall, quietFires>>
     ELSE UNCHANGED <<isIdle, isUploading, sweep, forceCall, quietFires>>
  /\ UNCHANGED <<envVars, db, store, initialized, cleanupVars,
                 onIdleCallback, listening, torn, initCall, callVars, acked,
                 dropped, faulted>>

\* resetIdleTimer, the document event listener of every detector that has
\* its listeners attached
Activity ==
  /\ \E g \in Gens : listening[g]
  /\ isIdle' = [g \in Gens |-> IF listening[g] THEN FALSE ELSE isIdle[g]]
  /\ idleTimer' = [g \in Gens |-> IF listening[g]
                                  THEN resetTimer(idleTimer[g])
                                  ELSE idleTimer[g]]
  /\ quietFires' = [g \in Gens |-> IF listening[g] THEN 0 ELSE quietFires[g]]
  /\ UNCHANGED <<envVars, db, store, initialized, cleanupVars, isUploading,
                 onIdleCallback, listening, torn, initCall, callVars,
                 forceCall, sweep, acked, dropped, faulted>>

\* ------------------------------------------------- UploadManager: sweeps
\* finally { this.isUploading = false } and the return to the caller
FinishSweep(g, sw) ==
  /\ sweep' = [sweep EXCEPT ![g] =
                 [NoSweep EXCEPT !.pc = "done", !.n = Len(sw.snap),
                                 !.calls = Len(sw.sent),
                                 !.failed = sw.failed, !.err = sw.err,
                                 !.skipped = sw.skipped]]
  /\ isUploading' = [isUploading EXCEPT ![g] = Finally(@)]
  /\ forceCall' = IF sw.owner = 0 THEN forceCall
                  ELSE [forceCall EXCEPT ![sw.owner].pc = "resolved",
                                         ![sw.owner].pend = {}]

\* the next iteration of the for loop, or its end
Advance(g, sw) ==
  LET i2 == NextIndex(sw.i, manager[g].batchSize) IN
  IF i2 < Len(sw.snap)
  THEN /\ Len(sw.sent) < MaxIter
       /\ sweep' = [sweep EXCEPT ![g] =
                      [sw EXCEPT !.pc = "send", !.i = i2,
                         !.sent = Append(sw.sent,
                                    Batch(sw.snap, i2, manager[g].batchSize))]]
       /\ UNCHANGED <<isUploading, forceCall>>
  ELSE FinishSweep(g, sw)

\* await this.storage.getUnuploadedLogs() settles
SweepRead(g) ==
  /\ sweep[g].pc = "read"
  /\ \E ok \in BOOLEAN :
       /\ ok => ~sweep[g].err
       /\ IF ok
          THEN LET snap == getUnuploadedLogs(store) IN
               /\ IF Len(snap) = 0
                  THEN FinishSweep(g, sweep[g])
                  ELSE /\ sweep' = [sweep EXCEPT ![g] =
                              [@ EXCEPT
                                 !.pc = "send", !.snap = snap, !.i = 0,
                                 !.sent = <<Batch(snap, 0,
                                                  manager[g].batchSize)>>]]
                       /\ UNCHANGED <<isUploading, forceCall>>
               /\ UNCHANGED faulted
          ELSE /\ FinishSweep(g, [sweep[g] EXCEPT !.err = TRUE])
               /\ faulted' = TRUE
  /\ UNCHANGED <<envVars, db, store, initialized, cleanupVars, idleVars,
                 initCall, callVars, acked, dropped>>

\* await this.uploader.uploadLogs(batch) settles
SweepSink(g) ==
  /\ sweep[g].pc = "send"
  /\ \E net \in NetOutcomes :
       LET batch == Batch(sweep[g].snap, sweep[g].i, manager[g].batchSize)
           ok == uploadLogs(manager[g].serverUrl, batch, net)
           sw == [sweep[g] EXCEPT
                    !.success = ok,
                    !.failed = IF ok \/ @ # 0 THEN @ ELSE Len(sweep[g].sent)]
       IN /\ acked' = IF ok THEN acked \cup Range(batch) ELSE acked
          /\ faulted' = (faulted \/ ~ok)
          /\ IF MarksBatch(ok)
             THEN /\ sweep' = [sweep EXCEPT ![g] = [sw EXCEPT !.pc = "mark"]]
                  /\ UNCHANGED <<isUploading, forceCall>>
             ELSE IF BreaksLoop(ok) THEN FinishSweep(g, sw)
                  ELSE Advance(g, sw)
  /\ UNCHANGED <<envVars, db, store, initialized, cleanupVars, idleVars,
                 initCall, callVars, dropped>>

\* await this.storage.markAsUploaded(logIds) settles
SweepMark(g) ==
  /\ sweep[g].pc = "mark"
  /\ LET ids == Range(Batch(sweep[g].snap, sweep[g].i,
                            manager[g].batchSize)) IN
     \E ok \in BOOLEAN :
       IF ok
       THEN LET sw == [sweep[g] EXCEPT
                        !.skipped = @ \cup (ids \ DOMAIN store)] IN
            /\ store' = IF db THEN markAsUploaded(store, ids) ELSE store
            /\ IF BreaksLoop(TRUE) THEN FinishSweep(g, sw)
               ELSE Advance(g, sw)
            /\ UNCHANGED faulted
       ELSE /\ db
            /\ \E part \in (SUBSET ids) \ {ids} :
                 store' = markAsUploaded(store, part)
            /\ FinishSweep(g, [sweep[g] EXCEPT !.err = TRUE])
            /\ faulted' = TRUE
  /\ UNCHANGED <<envVars, db, initialized, cleanupVars, idleVars, initCall,
                 callVars, acked, dropped>>

\* UploadManager.forceUpload()
ForceUpload(f) ==
  /\ forceCall[f].pc = "idle"
  /\ \A g \in ForceIds : g < f => forceCall[g].pc # "idle"
  /\ UploadPendingLogs(cur, f)
  /\ UNCHANGED <<envVars, db, store, initialized, cleanupVars, idleVars,
                 initCall, callVars, acked, dropped, faulted>>

\* ------------------------------------- UploadManager: handleNewLog path
FirstIdle(c) ==
  /\ logCall[c].pc = "idle"
  /\ \A d \in Ids : d < c => logCall[d].pc # "idle"

\* handleNewLog: if (this.strategy === 'immediate')
EveryStrategyUploadsOnArrival(strategy) == TRUE
UploadsOnArrival(strategy) == strategy = "immediate"

\* UploadManager.handleNewLog(log), called directly
HandleNewLog(c) ==
  /\ FirstIdle(c)
  /\ logCall' = [logCall EXCEPT ![c] = NewCall("save", "", "handleNewLog")]
  /\ UNCHANGED console
  /\ UNCHANGED <<envVars, db, store, initialized, cleanupVars, isUploading,
                 idleVars, initCall, forceCall, sweep, acked, dropped,
                 faulted>>

\* await storage.saveLog(log) settles; on success the strategy branch and
\* the prefix of uploadImmediately up to its first await
SaveDone(c) ==
  /\ logCall[c].pc = "save"
  /\ \E ok \in BOOLEAN :
       /\ ok => (~logCall[c].threw /\ ~saveLogRejects(store, c))
       /\ IF ok
          THEN /\ store' = saveLog(store, LogEntry(c))
               /\ UNCHANGED faulted
               /\ IF logCall[c].via # "saveLog"
                     /\ UploadsOnArrival(manager[logCall[c].gen].strategy)
                  THEN IF GuardHeld(isUploading[logCall[c].gen])
                       THEN /\ logCall' = [logCall EXCEPT ![c].pc =
                                             Settle(logCall[c].via, TRUE)]
                            /\ dropped' = dropped \cup {c}
                            /\ UNCHANGED isUploading
                       ELSE /\ isUploading' =
                                 [isUploading EXCEPT ![logCall[c].gen] = TRUE]
                            /\ logCall' = [logCall EXCEPT ![c].pc = "send"]
                            /\ UNCHANGED dropped
                  ELSE /\ logCall' = [logCall EXCEPT ![c].pc =
                                        Settle(logCall[c].via, TRUE)]
                       /\ UNCHANGED <<isUploading, dropped>>
          ELSE /\ logCall' = [logCall EXCEPT ![c].pc =
                                Settle(logCall[c].via, FALSE)]
               /\ faulted' = TRUE
               /\ UNCHANGED <<store, isUploading, dropped>>
  /\ UNCHANGED console
  /\ UNCHANGED <<envVars, db, initialized, cleanupVars, idleVars, initCall,
                 forceCall, sweep, acked>>

\* uploadImmediately: await this.uploader.uploadLogs(logs) settles
CallSink(c) ==
  /\ logCall[c].pc = "send"
  /\ \E net \in NetOutcomes :
       LET ok == uploadLogs(manager[logCall[c].gen].serverUrl, <<c>>, net) IN
       /\ acked' = IF ok THEN acked \cup {c} ELSE acked
       /\ faulted' = (faulted \/ ~ok)
       /\ IF MarksBatch(ok)
          THEN /\ logCall' = [logCall EXCEPT ![c].pc = "mark",
                                              ![c].success = ok]
               /\ UNCHANGED isUploading
          ELSE /\ logCall' = [logCall EXCEPT ![c].pc =
                                Settle(logCall[c].via, TRUE)]
               /\ isUploading' =
                    [isUploading EXCEPT ![logCall[c].gen] = Finally(@)]
  /\ UNCHANGED console
  /\ UNCHANGED <<envVars, db, store, initialized, cleanupVars, idleVars,
                 initCall, forceCall, sweep, dropped>>

\* uploadImmediately: await this.storage.markAsUploaded(logIds) settles
CallMark(c) ==
  /\ logCall[c].pc = "mark"
  /\ \E ok \in BOOLEAN :
       /\ ~ok => db
       /\ store' = IF ok /\ db THEN markAsUploaded(store, {c}) ELSE store
       /\ faulted' = (faulted \/ ~ok)
  /\ logCall' = [logCall EXCEPT ![c].pc = Settle(logCall[c].via, TRUE),
                                 ![c].success = FALSE]
  /\ isUploading' = [isUploading EXCEPT ![logCall[c].gen] = Finally(@)]
  /\ UNCHANGED console
  /\ UNCHANGED <<envVars, db, initialized, cleanupVars, idleVars, initCall,
                 forceCall, sweep, acked, dropped>>

\* ---------------------------------------------------------- CleanupManager
\* cleanupExpiredLogs: Date.now() - expirationDays * 24 * 60 * 60 * 1000
ExpirationTime(t, expirationDays) == t - expirationDays * DayMs

\* stopPeriodicCleanup: clearInterval of the timer cleanupInterval holds,
\* the one started last; the timers left
stopPeriodicCleanup ==
  IF cleanupInterval
  THEN SubSeq(liveIntervals, 1, Len(liveIntervals) - 1)
  ELSE liveIntervals

\* performCleanup(expirationDays) up to its await: cleanupExpiredLogs throws
\* at the call when the database is not open, which performCleanup catches
performCleanup(expirationDays, open) ==
  cleanups' = IF open
              THEN cleanups \cup {ExpirationTime(now, expirationDays)}
              ELSE cleanups

\* startPeriodicCleanup(expirationDays), timers being the timers alive:
\* performCleanup, then cleanupInterval = setInterval(...)
startPeriodicCleanup(expirationDays, timers, open) ==
  /\ performCleanup(expirationDays, open)
  /\ cleanupInterval' = TRUE
  /\ liveIntervals' = Append(timers, [days |-> expirationDays,
                                      due |-> now + IntervalMs])

\* the setInterval callback of timer k: performCleanup(expirationDays)
IntervalFire(k) ==
  /\ now >= liveIntervals[k].due
  /\ performCleanup(liveIntervals[k].days, db)
  /\ liveIntervals' = [liveIntervals EXCEPT ![k].due = @ + IntervalMs]
  /\ UNCHANGED <<envVars, db, store, initialized, cleanupInterval,
                 isUploading, idleVars, initCall, callVars, forceCall, sweep,
                 acked, dropped, faulted>>

\* await this.storage.cleanupExpiredLogs(expirationDays) settles: the cursor
\* has deleted every record in the key range, or the request failed and
\* performCleanup caught the rejection
CleanupDone(expirationTime) ==
  /\ expirationTime \in cleanups
  /\ cleanups' = cleanups \ {expirationTime}
  /\ \E ok \in BOOLEAN :
       /\ store' = IF ok THEN cleanupExpiredLogs(store, expirationTime)
                   ELSE store
       /\ faulted' = (faulted \/ ~ok)
  /\ UNCHANGED <<envVars, db, initialized, cleanupInterval, liveIntervals,
                 isUploading, idleVars, initCall, callVars, forceCall, sweep,
                 acked, dropped>>

\* Logger.clearAllLogs() of an initialized Logger settles: store.clear()
\* has emptied the object store, or the request failed
ClearAllLogs ==
  /\ initialized /\ db
  /\ \E ok \in BOOLEAN :
       /\ store' = IF ok THEN [x \in {} |-> NoRecord] ELSE store
       /\ faulted' = (faulted \/ ~ok)
  /\ UNCHANGED <<envVars, db, initialized, cleanupVars, isUploading,
                 idleVars, initCall, callVars, forceCall, sweep, acked,
                 dropped>>

\* time passes
Tick ==
  /\ \E t \in Times : t > now /\ now' = t
  /\ UNCHANGED <<config, hasWindow, configCall, upload, cur, updates,
                 manager, db, store, initialized, cleanupVars, isUploading,
                 idleVars, initCall, callVars, forceCall, sweep, acked,
                 dropped, faulted>>

\* ------------------------------------------------------------------ Logger
\* init(): storage.init() resolved
InitSucceeds ==
  /\ db' = TRUE
  /\ initialized' = TRUE
  /\ IF config.logExpiration > 0
     THEN startPeriodicCleanup(config.logExpiration, liveIntervals, TRUE)
     ELSE UNCHANGED cleanupVars

\* Logger.init() called by the application
LoggerInit ==
  /\ initCall = "idle"
  /\ initCall' = IF initialized THEN "resolved" ELSE "wait"
  /\ UNCHANGED <<envVars, db, store, initialized, cleanupVars, isUploading,
                 idleVars, callVars, forceCall, sweep, acked, dropped,
                 faulted>>

\* await this.storage.init() settles in the application's init() call
LoggerInitDone ==
  /\ initCall = "wait"
  /\ \E ok \in BOOLEAN :
       IF ok
       THEN /\ InitSucceeds
            /\ initCall' = "resolved"
            /\ UNCHANGED faulted
       ELSE /\ initCall' = "rejected"
            /\ faulted' = TRUE
            /\ UNCHANGED <<db, initialized, cleanupVars>>
  /\ UNCHANGED <<envVars, store, isUploading, idleVars, callVars, forceCall,
                 sweep, acked, dropped>>

\* printToConsole: the console method of the switch on log.level
PrintsAllToLog(level) == "log"
printToConsole(level) ==
  CASE level = "error" -> "error"
    [] level = "warn" -> "warn"
    [] level = "debug" -> "debug"
    [] level = "trace" -> "trace"
    [] OTHER -> "log"

\* Logger.log from the level filter to the console: the early return of a
\* debug or trace call outside debug mode, then printToConsole in debug
\* mode or for a level other than debug and trace
ConsoleAfter(level) ==
  IF ~config.debugMode /\ level \in {"debug", "trace"}
  THEN console
  ELSE IF config.debugMode \/ level \notin {"debug", "trace"}
       THEN [level |-> level, method |-> printToConsole(level)]
       ELSE console

\* Logger.log after the init check: level filter, entry, console, dispatch
LogBody(c, level) ==
  /\ logCall' = [logCall EXCEPT ![c] =
       [NewCall(IF ~config.debugMode /\ level \in {"debug", "trace"}
                THEN "resolved" ELSE "save",
                "",
                IF config.uploadLogs THEN "log" ELSE "saveLog")
          EXCEPT !.afterInitFailure = (initCall = "rejected")]]
  /\ console' = ConsoleAfter(level)

\* the same after await this.init() has resolved
LogContinue(c) ==
  /\ logCall' = [logCall EXCEPT
       ![c].threw = ~db',
       ![c].gen = cur,
       ![c].level = "",
       ![c].pc = IF ~config.debugMode /\ logCall[c].level \in {"debug", "trace"}
                 THEN "resolved" ELSE "save",
       ![c].via = IF config.uploadLogs THEN "log" ELSE "saveLog"]
  /\ console' = ConsoleAfter(logCall[c].level)

\* Logger.info / warn / error / debug / trace
Log(c, level) ==
  /\ FirstIdle(c)
  /\ IF initialized
     THEN LogBody(c, level)
     ELSE /\ logCall' = [logCall EXCEPT ![c] =
                        [NewCall("init", level, "log")
                           EXCEPT !.threw = FALSE,
                                  !.afterInitFailure = (initCall = "rejected")]]
          /\ UNCHANGED console
  /\ UNCHANGED <<envVars, db, store, initialized, cleanupVars, isUploading,
                 idleVars, initCall, forceCall, sweep, acked, dropped,
                 faulted>>

\* Logger.log: await this.init() settles
LogInitDone(c) ==
  /\ logCall[c].pc = "init"
  /\ \E ok \in BOOLEAN :
       IF ok
       THEN /\ InitSucceeds
            /\ LogContinue(c)
            /\ UNCHANGED faulted
       ELSE /\ logCall' = [logCall EXCEPT ![c].pc = "rejected"]
            /\ UNCHANGED console
            /\ faulted' = TRUE
            /\ UNCHANGED <<db, initialized, cleanupVars>>
  /\ UNCHANGED <<envVars, store, isUploading, idleVars, initCall, forceCall,
                 sweep, acked, dropped>>

\* { ...this.config, ...newConfig }
OverlayOnDefaults(cfg, partial) == partial
Overlay(cfg, partial) ==
  [k \in DOMAIN cfg |-> IF k \in DOMAIN partial THEN partial[k] ELSE cfg[k]]

\* the partial configurations passed to updateConfig
Partials ==
  {[serverUrl |-> u] : u \in {"https://collector", "https://other"}}
    \cup {[uploadStrategy |-> st] : st \in Strategies}
    \cup {[batchSize |-> b] : b \in 1..MaxBatch}

\* Logger.updateConfig(newConfig): the new uploader is new
\* LogUploader(config.serverUrl); a manager that is not replaced keeps the
\* uploader it was constructed with
updateConfig(newConfig) ==
  LET oldConfig == config
      new == mergeConfig(Overlay(config, newConfig))
      recreate == \/ oldConfig.uploadStrategy # new.uploadStrategy
                  \/ oldConfig.batchSize # new.batchSize
      d == destroy(DetectorOf(cur))
      g2 == cur + 1
  IN /\ updates < MaxUpdates
     /\ updates' = updates + 1
     /\ config' = new
     /\ IF recreate
        THEN /\ cur' = g2
             /\ manager' = [manager EXCEPT ![g2] = NewManager(new)]
             /\ idleTimer' = [idleTimer EXCEPT ![cur] = d.idleTimer,
                                               ![g2] = resetTimer(FALSE)]
             /\ isIdle' = [isIdle EXCEPT ![cur] = d.isIdle, ![g2] = FALSE]
             /\ onIdleCallback' =
                  [onIdleCallback EXCEPT
                     ![cur] = d.onIdleCallback,
                     ![g2] = (new.uploadStrategy = "idle")]
             /\ listening' = [listening EXCEPT ![cur] = d.listening,
                                               ![g2] = hasWindow]
             /\ torn' = [torn EXCEPT ![cur] = TRUE]
        ELSE UNCHANGED <<cur, manager, idleTimer, isIdle, onIdleCallback,
                         listening, torn>>
     /\ IF oldConfig.logExpiration # new.logExpiration
        THEN IF new.logExpiration > 0
             THEN startPeriodicCleanup(new.logExpiration,
                                       stopPeriodicCleanup, db)
             ELSE /\ cleanupInterval' = FALSE
                  /\ liveIntervals' = stopPeriodicCleanup
                  /\ UNCHANGED cleanups
        ELSE UNCHANGED cleanupVars
     /\ UNCHANGED <<hasWindow, upload, now, db, store, initialized, isUploading,
                    quietFires, initCall, callVars, forceCall, sweep, acked,
                    dropped, faulted>>

\* an updateConfig call; the object a getConfig returned earlier is not the
\* new config object, which mergeConfig has just created
UpdateConfig(newConfig) ==
  /\ updateConfig(newConfig)
  /\ configCall' = [configCall EXCEPT !.shared = FALSE]

\* the same call, observed: the configuration before it and its argument
UpdateConfigObserved(newConfig) ==
  /\ updateConfig(newConfig)
  /\ configCall' = [configCall EXCEPT !.op = "updateConfig",
                                       !.before = config,
                                       !.partial = newConfig,
                                       !.shared = FALSE]

\* getConfig(): { ...this.config }, a new object with the fields of config
GetConfigReturnsSelf(cfg) == [object |-> cfg, shared |-> TRUE]
getConfig(cfg) ==
  [object |-> [k \in DOMAIN cfg |-> cfg[k]], shared |-> FALSE]

GetConfig ==
  /\ configCall' = [configCall EXCEPT !.op = "getConfig",
                                       !.returned = getConfig(config).object,
                                       !.shared = getConfig(config).shared]
  /\ UNCHANGED <<config, hasWindow, upload, now, cur, updates, manager, db,
                 store, initialized, cleanupVars, isUploading, idleVars,
                 initCall, callVars, forceCall, sweep, acked, dropped,
                 faulted>>

\* the caller assigns to a field of the object getConfig returned; the
\* Logger's config changes with it when it is the same object
WriteReturned(k, v) ==
  /\ configCall.op \in {"getConfig", "write"}
  /\ configCall' = [configCall EXCEPT !.op = "write", !.returned[k] = v]
  /\ config' = IF configCall.shared THEN [config EXCEPT ![k] = v] ELSE config
  /\ UNCHANGED <<hasWindow, upload, now, cur, updates, manager, db, store,
                 initialized, cleanupVars, isUploading, idleVars, initCall,
                 callVars, forceCall, sweep, acked, dropped, faulted>>

\* Logger.destroy(): uploadManager.destroy(), cleanupManager.destroy(),
\* initialized = false
LoggerDestroy ==
  LET d == destroy(DetectorOf(cur)) IN
  /\ idleTimer' = [idleTimer EXCEPT ![cur] = d.idleTimer]
  /\ isIdle' = [isIdle EXCEPT ![cur] = d.isIdle]
  /\ onIdleCallback' = [onIdleCallback EXCEPT ![cur] = d.onIdleCallback]
  /\ listening' = [listening EXCEPT ![cur] = d.listening]
  /\ torn' = [torn EXCEPT ![cur] = TRUE]
  /\ cleanupInterval' = FALSE
  /\ liveIntervals' = stopPeriodicCleanup
  /\ UNCHANGED cleanups
  /\ initialized' = FALSE
  /\ UNCHANGED <<envVars, db, store, isUploading, quietFires, initCall,
                 callVars, forceCall, sweep, acked, dropped, faulted>>

\* Logger.forceUpload()
LoggerForceUpload(f) ==
  /\ forceCall[f].pc = "idle"
  /\ \A g \in ForceIds : g < f => forceCall[g].pc # "idle"
  /\ IF initialized
     THEN UploadPendingLogs(cur, f)
     ELSE /\ forceCall' = [forceCall EXCEPT ![f].pc = "init"]
          /\ UNCHANGED <<isUploading, sweep>>
  /\ UNCHANGED <<envVars, db, store, initialized, cleanupVars, idleVars,
                 initCall, callVars, acked, dropped, faulted>>

\* Logger.forceUpload: await this.init() settles
ForceInitDone(f) ==
  /\ forceCall[f].pc = "init"
  /\ \E ok \in BOOLEAN :
       IF ok
       THEN /\ InitSucceeds
            /\ UploadPendingLogsWith(cur, f, TRUE)
            /\ UNCHANGED faulted
       ELSE /\ forceCall' = [forceCall EXCEPT ![f].pc = "rejected"]
            /\ faulted' = TRUE
            /\ UNCHANGED <<db, initialized, cleanupVars, isUploading, sweep>>
  /\ UNCHANGED <<envVars, store, idleVars, initCall, callVars, acked,
                 dropped>>

\* ---------------------------------------------------------- specifications
\* the UploadManager driven directly
Next ==
  \/ \E c \in Ids : HandleNewLog(c)
  \/ \E c \in Ids : SaveDone(c)
  \/ \E c \in Ids : CallSink(c)
  \/ \E c \in Ids : CallMark(c)
  \/ \E f \in ForceIds : ForceUpload(f)
  \/ \E g \in Gens : TimerFire(g)
  \/ Activity
  \/ \E g \in Gens : SweepRead(g)
  \/ \E g \in Gens : SweepSink(g)
  \/ \E g \in Gens : SweepMark(g)

Spec == Init /\ [][Next]_vars

\* the same manager over a store that already holds records with the ids
\* of the first handleNewLog calls
DuplicateIds == 1..Min(MaxStored, MaxLogs)

InitDuplicate ==
  \E uc \in ManagerConfigs : Constructed(uc, TRUE, DuplicateIds, TRUE)

SpecDuplicate == InitDuplicate /\ [][Next]_vars

\* the same manager constructed with a batch size of 0 or less: mergeConfig
\* and the constructors pass batchSize on as given
NonPositiveBatchConfigs ==
  {[uc EXCEPT !.batchSize = b] : uc \in ManagerConfigs, b \in {-1, 0}}

InitBatch ==
  \E uc \in NonPositiveBatchConfigs, k \in 0..MaxStored :
    Constructed(uc, TRUE, (1 - k)..0, TRUE)

SpecBatch == InitBatch /\ [][Next]_vars

\* the Logger facade driven by the application
NextLogger ==
  \/ LoggerInit
  \/ LoggerInitDone
  \/ \E c \in LogIds, level \in Levels : Log(c, level)
  \/ \E c \in LogIds : LogInitDone(c)
  \/ \E c \in Ids : SaveDone(c)
  \/ \E c \in Ids : CallSink(c)
  \/ \E c \in Ids : CallMark(c)
  \/ \E g \in Gens : TimerFire(g)
  \/ Activity
  \/ \E g \in Gens : SweepRead(g)
  \/ \E g \in Gens : SweepSink(g)
  \/ \E g \in Gens : SweepMark(g)

SpecLogger == InitLogger /\ [][NextLogger]_vars

\* a Logger with uploads enabled and an endpoint configured
LifecycleConfigs ==
  {uc \in UserConfigs : uc.debugMode /\ uc.uploadLogs /\ uc.serverUrl # ""}

ReconfigIds == 1..Min(MaxReconfigCalls, MaxLogs)

\* an initialized Logger, outside a page, that is reconfigured while it logs
\* (debugMode stays true, so that every level takes the same path through
\* log; the calls are info calls)
InitReconfig ==
  \E uc \in LifecycleConfigs : Constructed(uc, TRUE, {}, FALSE)

NextReconfig ==
  \/ \E c \in ReconfigIds : Log(c, "info")
  \/ \E c \in Ids : SaveDone(c)
  \/ \E c \in Ids : CallSink(c)
  \/ \E c \in Ids : CallMark(c)
  \/ \E newConfig \in Partials : UpdateConfig(newConfig)
  \/ \E g \in Gens : TimerFire(g)
  \/ \E g \in Gens : SweepRead(g)
  \/ \E g \in Gens : SweepSink(g)
  \/ \E g \in Gens : SweepMark(g)

SpecReconfig == InitReconfig /\ [][NextReconfig]_vars

\* the idle detectors of an initialized Logger in a page, with an empty
\* store (every sweep ends at its read), reconfigured and destroyed
InitIdle == \E uc \in LifecycleConfigs : Constructed(uc, TRUE, {}, TRUE)

NextIdle ==
  \/ \E newConfig \in Partials : UpdateConfig(newConfig)
  \/ LoggerDestroy
  \/ \E g \in Gens : TimerFire(g)
  \/ Activity
  \/ \E g \in Gens : SweepRead(g)

SpecIdle == InitIdle /\ [][NextIdle]_vars

\* a Logger that logs, forces uploads and is destroyed
InitTeardown ==
  \E uc \in LifecycleConfigs : Constructed(uc, FALSE, {}, FALSE)

NextTeardown ==
  \/ \E c \in ReconfigIds, level \in Levels : Log(c, level)
  \/ \E c \in ReconfigIds : LogInitDone(c)
  \/ \E c \in Ids : SaveDone(c)
  \/ \E c \in Ids : CallSink(c)
  \/ \E c \in Ids : CallMark(c)
  \/ \E f \in ForceIds : LoggerForceUpload(f)
  \/ \E f \in ForceIds : ForceInitDone(f)
  \/ LoggerDestroy
  \/ \E g \in Gens : TimerFire(g)
  \/ \E g \in Gens : SweepRead(g)
  \/ \E g \in Gens : SweepSink(g)
  \/ \E g \in Gens : SweepMark(g)

SpecTeardown == InitTeardown /\ [][NextTeardown]_vars

\* one UploadManager outside a page, whose awaited operations all settle:
\* every pending storage request and every pending sink call completes
FairIds == 1..Min(MaxFairCalls, MaxLogs)

InitGuard ==
  \E uc \in ManagerConfigs, k \in 0..MaxStored :
    Constructed(uc, TRUE, (1 - k)..0, FALSE)

NextGuard ==
  \/ \E c \in FairIds : HandleNewLog(c)
  \/ \E c \in Ids : SaveDone(c)
  \/ \E c \in Ids : CallSink(c)
  \/ \E c \in Ids : CallMark(c)
  \/ \E f \in ForceIds : ForceUpload(f)
  \/ \E g \in Gens : TimerFire(g)
  \/ \E g \in Gens : SweepRead(g)
  \/ \E g \in Gens : SweepSink(g)
  \/ \E g \in Gens : SweepMark(g)

Settles ==
  /\ WF_vars(\E c \in Ids : CallSink(c))
  /\ WF_vars(\E c \in Ids : CallMark(c))
  /\ WF_vars(\E g \in Gens : SweepRead(g))
  /\ WF_vars(\E g \in Gens : SweepSink(g))
  /\ WF_vars(\E g \in Gens : SweepMark(g))

SpecGuard == InitGuard /\ [][NextGuard]_vars /\ Settles

\* one UploadManager with the idle strategy and an endpoint, in a page,
\* driven by handleNewLog and its idle detector only (no forceUpload): a
\* pending timeout eventually fires and every awaited operation settles;
\* activity events may or may not occur
IdleUploadConfigs ==
  {uc \in ManagerConfigs : uc.uploadStrategy = "idle" /\ uc.serverUrl # ""}

InitIdleUpload ==
  \E uc \in IdleUploadConfigs, k \in 0..MaxStored :
    Constructed(uc, TRUE, (1 - k)..0, TRUE)

NextIdleUpload ==
  \/ \E c \in FairIds : HandleNewLog(c)
  \/ \E c \in Ids : SaveDone(c)
  \/ \E g \in Gens : TimerFire(g)
  \/ Activity
  \/ \E g \in Gens : SweepRead(g)
  \/ \E g \in Gens : SweepSink(g)
  \/ \E g \in Gens : SweepMark(g)

IdleSettles ==
  /\ WF_vars(\E c \in Ids : SaveDone(c))
  /\ WF_vars(\E g \in Gens : TimerFire(g))
  /\ WF_vars(\E g \in Gens : SweepRead(g))
  /\ WF_vars(\E g \in Gens : SweepSink(g))
  /\ WF_vars(\E g \in Gens : SweepMark(g))

SpecIdleUpload == InitIdleUpload /\ [][NextIdleUpload]_vars /\ IdleSettles

\* a Logger with uploads disabled whose retention is configured and
\* reconfigured while time passes; the store holds records of an earlier
\* session that are about one day old
RetentionConfigs ==
  {[serverUrl |-> "", debugMode |-> TRUE, uploadLogs |-> FALSE,
    logExpiration |-> r, uploadStrategy |-> "idle", batchSize |-> 1] :
      r \in 0..MaxRetention}

RetentionPartials == {[logExpiration |-> r] : r \in 0..MaxRetention}

OldStamps == {Epoch - DayMs - 1, Epoch - DayMs, Epoch - DayMs + 1}

InitRetention ==
  \E uc \in RetentionConfigs, k \in 0..MaxStored :
    \E stamps \in [(1 - k)..0 -> OldStamps] :
      ConstructedAt(uc, FALSE, stamps, FALSE, Epoch)

NextRetention ==
  \/ LoggerInit
  \/ LoggerInitDone
  \/ \E c \in ReconfigIds : Log(c, "info")
  \/ \E c \in Ids : LogInitDone(c)
  \/ \E c \in Ids : SaveDone(c)
  \/ \E newConfig \in RetentionPartials : UpdateConfig(newConfig)
  \/ \E k \in 1..Len(liveIntervals) : IntervalFire(k)
  \/ \E expirationTime \in cleanups : CleanupDone(expirationTime)
  \/ Tick

SpecRetention == InitRetention /\ [][NextRetention]_vars

\* the logging methods of a Logger with uploads disabled, called with every
\* level, in and outside debug mode, before and after init
ConsoleConfigs ==
  {[serverUrl |-> "", debugMode |-> d, uploadLogs |-> FALSE,
    logExpiration |-> 0, uploadStrategy |-> "idle", batchSize |-> 1] :
      d \in BOOLEAN}

InitConsole ==
  \E uc \in ConsoleConfigs, opened \in BOOLEAN :
    Constructed(uc, opened, {}, FALSE)

NextConsole ==
  \/ \E c \in LogIds, level \in AllLevels : Log(c, level)
  \/ \E c \in LogIds : LogInitDone(c)
  \/ \E c \in Ids : SaveDone(c)

SpecConsole == InitConsole /\ [][NextConsole]_vars

\* a Logger with uploads under the idle strategy, an endpoint and a
\* retention of one day, outside a page, over records of an earlier
\* session that are about one day old: init starts the expiry sweep, the
\* idle timeout starts the upload sweep, the application may clear the store
ExpiryConfigs ==
  {[serverUrl |-> "https://collector", debugMode |-> TRUE,
    uploadLogs |-> TRUE, logExpiration |-> 1, uploadStrategy |-> "idle",
    batchSize |-> b] : b \in 1..MaxBatch}

InitExpiry ==
  \E uc \in ExpiryConfigs, k \in 0..(MaxStored + MaxLogs) :
    \E stamps \in [(1 - MaxStored)..(k - MaxStored) -> OldStamps] :
      ConstructedAt(uc, FALSE, stamps, FALSE, Epoch)

NextExpiry ==
  \/ LoggerInit
  \/ LoggerInitDone
  \/ \E expirationTime \in cleanups : CleanupDone(expirationTime)
  \/ ClearAllLogs
  \/ \E g \in Gens : TimerFire(g)
  \/ \E g \in Gens : SweepRead(g)
  \/ \E g \in Gens : SweepSink(g)
  \/ \E g \in Gens : SweepMark(g)

SpecExpiry == InitExpiry /\ [][NextExpiry]_vars

\* the IndexedDBStorage of an initialized Logger driven directly: any
\* records of an earlier session, markAsUploaded called with any ids
StorageIds == OldIds \cup Ids

InitStorage ==
  \E uc \in RetentionConfigs, S \in SUBSET StorageIds :
    \E stamps \in [S -> OldStamps] :
      ConstructedAt(uc, TRUE, stamps, FALSE, Epoch)

\* storage.markAsUploaded(logIds), settled
StorageMarkAsUploaded(logIds) ==
  /\ store' = IF db THEN markAsUploaded(store, logIds) ELSE store
  /\ UNCHANGED <<envVars, db, initialized, cleanupVars, isUploading,
                 idleVars, initCall, callVars, forceCall, sweep, acked,
                 dropped, faulted>>

\* the configuration methods of an initialized Logger: updateConfig with
\* partial configurations of no, one and two fields, getConfig, and writes
\* to the object getConfig returned
ConfigPartials ==
  {NoPartial} \cup Partials
    \cup {[debugMode |-> d] : d \in BOOLEAN}
    \cup {[serverUrl |-> u, uploadLogs |-> up] :
            u \in {"", "https://other"}, up \in BOOLEAN}

InitConfig == \E uc \in UserConfigs : Constructed(uc, TRUE, {}, FALSE)

NextConfig ==
  \/ \E newConfig \in ConfigPartials : UpdateConfigObserved(newConfig)
  \/ GetConfig
  \/ \E v \in BOOLEAN : WriteReturned("debugMode", v)
  \/ \E v \in {"", "https://elsewhere"} : WriteReturned("serverUrl", v)

SpecConfig == InitConfig /\ [][NextConfig]_vars

\* the LogUploader driven directly: new LogUploader(serverUrl), then
\* uploadLogs(logs) calls, each one settled
UploaderUrls == {"", "https://collector", "https://other"}

UploaderConfigs ==
  {[serverUrl |-> u, debugMode |-> TRUE, uploadLogs |-> TRUE,
    logExpiration |-> 0, uploadStrategy |-> "idle", batchSize |-> 1] :
      u \in UploaderUrls}

InitUploader == \E uc \in UploaderConfigs : Constructed(uc, TRUE, {}, FALSE)

LogBatches == UNION {[1..n -> StorageIds] : n \in 0..MaxBatch}

UploaderUploadLogs(logs) ==
  /\ \E net \in NetOutcomes :
       upload' = [serverUrl |-> manager[cur].serverUrl, logs |-> logs,
                  net |-> net,
                  result |-> uploadLogs(manager[cur].serverUrl, logs, net)]
  /\ UNCHANGED <<config, hasWindow, configCall, now, cur, updates, manager,
                 db, store,
                 initialized, cleanupVars, isUploading, idleVars, initCall,
                 callVars, forceCall, sweep, acked, dropped, faulted>>

NextUploader == \E logs \in LogBatches : UploaderUploadLogs(logs)

SpecUploader == InitUploader /\ [][NextUploader]_vars

NextStorage == \E logIds \in SUBSET StorageIds : StorageMarkAsUploaded(logIds)

SpecStorage == InitStorage /\ [][NextStorage]_vars

\* ------------------------------------------------------------- properties
Uploaded == {x \in DOMAIN store : store[x].uploaded}
Unuploaded == Range(getUnuploadedLogs(store))

\* uploader.uploadLogs calls that have started and not yet settled
ActiveSinkCalls ==
  Cardinality({c \in Ids : logCall[c].pc = "send"})
    + Cardinality({g \in Gens : sweep[g].pc = "send"})

AllSettled == \A c \in Ids : logCall[c].pc \in {"resolved", "rejected"}

EndpointAndNoFault == manager[cur].serverUrl # "" /\ ~faulted

\* C1: for one UploadManager, whatever the interleaving of handleNewLog
\* calls, idle fires and forceUpload calls, at most one uploader.uploadLogs
\* call is started and not yet settled.
AtMostOneInFlight == ActiveSinkCalls <= 1

\* C1 witness: a sink call is in flight after an immediate upload and a
\* forceUpload both met the held guard.
AtMostOneInFlightWitness ==
  /\ \E c \in Ids : logCall[c].pc = "send"
  /\ dropped # {}
  /\ \E f \in ForceIds :
       forceCall[f].pc = "resolved" /\ ~forceCall[f].acquired

\* C2: a record is uploaded only if the sink reported success for a batch
\* that contained it, and markAsUploaded is only ever awaited by an attempt
\* whose sink call returned success (a failed attempt marks nothing).
UploadedOnlyAfterSuccess ==
  /\ Uploaded \subseteq acked
  /\ \A c \in Ids : logCall[c].pc = "mark" => logCall[c].success
  /\ \A g \in Gens : sweep[g].pc = "mark" => sweep[g].success

\* C2 witness: a sweep ended on a sink failure at its second batch or later:
\* a record of the failed batch is un-uploaded and was never acknowledged,
\* while the earlier batches are uploaded.
UploadedOnlyAfterSuccessWitness ==
  /\ sweep[cur].pc = "done"
  /\ sweep[cur].failed > 1
  /\ Unuploaded \ acked # {}
  /\ Uploaded # {}

\* C3: besides the records an earlier session left, the store holds exactly
\* one record per handleNewLog call whose saveLog resolved (a call rejected
\* by saveLog stores nothing); the un-uploaded and the uploaded records are
\* disjoint and together are all of them, so N resolved calls have added
\* exactly N records.
NoRecordLostOrDuplicated ==
  LET saved == {c \in Ids : logCall[c].pc \in {"send", "mark", "resolved"}}
      snapshot == getUnuploadedLogs(store)
      new(S) == S \cap Ids
  IN /\ new(DOMAIN store) = saved
     /\ Len(snapshot) = Cardinality(Unuploaded)
     /\ Unuploaded \cap Uploaded = {}
     /\ new(Unuploaded) \cup new(Uploaded) = saved
     /\ Cardinality(new(Unuploaded)) + Cardinality(new(Uploaded))
          = Cardinality(saved)

\* C3 witness: all calls have resolved, a sweep has run, a sink call has
\* failed, and the store holds uploaded and un-uploaded records.
NoRecordLostOrDuplicatedWitness ==
  /\ \A c \in Ids : logCall[c].pc = "resolved"
  /\ sweep[cur].pc = "done"
  /\ faulted
  /\ Uploaded \cap Ids # {}
  /\ Unuploaded \cap Ids # {}
  /\ Cardinality(DOMAIN store \cap Ids) = MaxLogs

\* C4: a logging call that has passed init and is on the storage/upload
\* path (awaiting saveLog, uploadLogs or markAsUploaded) never rejects,
\* whatever those operations do.
LogCallNeverRejectsOnUploadPath ==
  [][\A c \in Ids :
       logCall[c].pc \in {"save", "send", "mark"}
         => logCall'[c].pc # "rejected"]_vars

\* C4 witness: a logging call resolved although its saveLog rejected (the
\* call was not filtered and its record is not in the store).
LogCallNeverRejectsOnUploadPathWitness ==
  \E c \in Ids :
    /\ logCall[c].pc = "resolved"
    /\ logCall[c].via = "log"
    /\ config.debugMode
    /\ c \notin DOMAIN store

\* C5: once init() has rejected, every logging call made afterwards
\* resolves normally.
LogResolvesAfterInitFailure ==
  \A c \in Ids : logCall[c].afterInitFailure => logCall[c].pc # "rejected"

\* C6: with uploadLogs = false, uploader.uploadLogs is never invoked.
NoSinkCallWhenUploadsDisabled == ~config.uploadLogs => ActiveSinkCalls = 0

\* C7: in the step in which the sink reports failure on batch k of a sweep,
\* the sweep ends with batch k as the last one sent, the step marks nothing,
\* and of the snapshot exactly the records of batches 1..k-1 are uploaded.
BatchFailFast ==
  [][\A g \in Gens :
     (sweep[g].failed = 0 /\ sweep'[g].failed # 0) =>
       /\ sweep'[g].pc = "done"
       /\ sweep'[g].failed = Len(sweep[g].sent)
       /\ sweep'[g].calls = sweep'[g].failed
       /\ store' = store
       /\ Range(sweep[g].snap) \cap Uploaded' =
            Range(SubSeq(sweep[g].snap, 1,
                         (sweep'[g].failed - 1) * manager[g].batchSize))]_vars

\* C7 witness: a sweep ended when its second batch failed, with more than
\* two batches in its snapshot: two sink calls were made.
BatchFailFastWitness ==
  /\ sweep[cur].pc = "done"
  /\ sweep[cur].failed = 2
  /\ sweep[cur].calls = 2
  /\ sweep[cur].n > 2 * manager[cur].batchSize

\* C8: in the step that ends a sweep over a snapshot of n records with batch
\* size b in which the sink succeeded on every batch (and no store operation
\* rejected), the sweep has made ceil(n/b) sink calls over the consecutive
\* slices of the snapshot, each of size b except a smaller last one, and
\* all n records are uploaded.
SweepSendsConsecutiveBatches ==
  [][\A g \in Gens :
     (/\ sweep[g].pc \in {"read", "send", "mark"}
      /\ sweep'[g].pc = "done"
      /\ sweep'[g].failed = 0
      /\ ~sweep'[g].err) =>
       LET n == Len(sweep[g].snap)
           b == manager[g].batchSize
       IN /\ Len(sweep[g].sent) = (n + b - 1) \div b
          /\ \A k \in 1..Len(sweep[g].sent) :
               sweep[g].sent[k] =
                 SubSeq(sweep[g].snap, (k - 1) * b + 1, Min(k * b, n))
          /\ Range(sweep[g].snap) \subseteq Uploaded']_vars

\* C8 witness: a sweep over three pending records with batch size two has
\* ended without failure after two sink calls.
SweepSendsConsecutiveBatchesWitness ==
  /\ sweep[cur].pc = "done" /\ sweep[cur].failed = 0 /\ ~sweep[cur].err
  /\ sweep[cur].n = 3
  /\ manager[cur].batchSize = 2
  /\ sweep[cur].calls = 2
  /\ Cardinality(Uploaded) >= 3

PendingAtCall(f) ==
  IF forceCall[f].pc = "idle" THEN Unuploaded ELSE forceCall[f].pend

NonPositiveBatchIsFloored ==
  \A g \in Gens :
    (manager[g].batchSize <= 0 /\ sweep[g].pc = "send") =>
      /\ Batch(sweep[g].snap, sweep[g].i, manager[g].batchSize) # <<>>
      /\ Len(sweep[g].sent) <= Len(sweep[g].snap)

\* C12: every sink send that the Logger's manager starts targets the
\* configured endpoint, so after updateConfig has changed only serverUrl the
\* sends that start afterwards go to the new endpoint (a send in flight at
\* the call is not concerned).
SendsTargetConfiguredEndpoint ==
  [][/\ \A c \in Ids :
          (/\ logCall[c].pc # "send"
           /\ logCall'[c].pc = "send"
           /\ logCall'[c].gen = cur)
            => manager[cur].serverUrl = config.serverUrl
     /\ (/\ sweep'[cur].pc = "send"
         /\ sweep[cur].pc # "send" \/ sweep'[cur].i # sweep[cur].i)
          => manager[cur].serverUrl = config.serverUrl]_vars

\* C13: at most one idle detector has a pending timer and a registered
\* callback, and every detector but the one of the manager in use is torn
\* down: no timer, no callback, no listeners.
AtMostOneIdleSubscription ==
  /\ Cardinality({g \in Gens : idleTimer[g] /\ onIdleCallback[g]}) <= 1
  /\ \A g \in Gens :
       g # cur => ~idleTimer[g] /\ ~onIdleCallback[g] /\ ~listening[g]

\* C13 witness: updateConfig has replaced a manager of the idle strategy
\* whose timer was pending, and the new manager's detector is subscribed.
AtMostOneIdleSubscriptionWitness ==
  /\ cur > 0
  /\ manager[0].strategy = "idle"
  /\ torn[0] /\ ~isIdle[0]
  /\ idleTimer[cur] /\ onIdleCallback[cur]

\* C14: without a window, the timer of a detector that is not destroyed is
\* always pending: it restarts when it has fired.
TimerRecursWithoutWindow ==
  \A g \in Gens : (~hasWindow /\ g <= cur /\ ~torn[g]) => idleTimer[g]

\* C15: between two activity events the callback is invoked at most once,
\* it is invoked only by the pending timeout of a detector that is not
\* idle, which the invocation consumes, and every activity event leaves
\* the timer pending afresh and the detector not idle.
IdleFiresOncePerQuietPeriod ==
  [][\A g \in Gens :
       /\ quietFires'[g] <= 1
       /\ quietFires'[g] > quietFires[g]
            => idleTimer[g] /\ ~idleTimer'[g] /\ ~isIdle[g]
       /\ (Activity /\ listening[g])
            => idleTimer'[g] /\ ~isIdle'[g] /\ quietFires'[g] = 0]_vars

\* C15 witness: the callback of a detector has fired (its sweep is done)
\* and a later activity event has reset the timer.
IdleFiresOncePerQuietPeriodWitness ==
  \E g \in Gens :
    /\ listening[g] /\ onIdleCallback[g]
    /\ sweep[g].pc = "done"
    /\ idleTimer[g] /\ ~isIdle[g] /\ quietFires[g] = 0

\* C16: once IdleDetector.destroy has run, the detector has no pending
\* timer, no listeners and no callback, and from then on its callback is
\* not invoked and it starts no sweep.
DestroyedDetectorIsSilent ==
  [][\A g \in Gens :
       /\ torn'[g] => ~idleTimer'[g] /\ ~listening'[g] /\ ~onIdleCallback'[g]
       /\ torn[g] => /\ quietFires'[g] = quietFires[g]
                     /\ isIdle'[g] = isIdle[g]
                     /\ sweep'[g].pc = "read" => sweep[g].pc = "read"]_vars

\* C16 witness: a detector with listeners and a registered callback was
\* destroyed while its timer was pending, and the detector of the manager
\* that replaced it has since fired and its sweep has ended.
DestroyedDetectorIsSilentWitness ==
  /\ torn[0] /\ ~isIdle[0]
  /\ manager[0].strategy = "idle"
  /\ hasWindow
  /\ cur > 0 /\ sweep[cur].pc = "done"

\* C17: a logging call made after destroy starts no sink call.
NoSinkCallAfterDestroy ==
  \A c \in Ids : logCall[c].afterDestroy => logCall[c].pc \notin {"send", "mark"}

\* the position of record c in a snapshot (0 when absent)
PositionIn(snap, c) ==
  IF c \in Range(snap) THEN CHOOSE p \in 1..Len(snap) : snap[p] = c ELSE 0

\* C18: under the immediate strategy, a record whose upload was dropped is
\* in the store un-uploaded when it is dropped and stays so until a sweep
\* marks it; a sweep that takes its snapshot while the record is un-uploaded
\* has it in the snapshot; and a sweep that ends (no store operation having
\* rejected) has sent the batch of every such record that no failed batch
\* precedes, and has uploaded it when no batch failed.
DroppedRecordIsSwept ==
  [][\A c \in dropped' :
       /\ c \in DOMAIN store'
       /\ c \notin dropped => ~store'[c].uploaded
       /\ (c \in dropped /\ ~store[c].uploaded /\ store'[c].uploaded)
            => \E g \in Gens :
                 /\ sweep[g].pc = "mark"
                 /\ c \in Range(Batch(sweep[g].snap, sweep[g].i,
                                      manager[g].batchSize))
       /\ \A g \in Gens :
            /\ (/\ manager[g].strategy = "immediate"
                /\ sweep[g].pc = "read" /\ sweep'[g].pc = "send"
                /\ ~store'[c].uploaded)
                 => c \in Range(sweep'[g].snap)
            /\ (/\ manager[g].strategy = "immediate"
                /\ sweep[g].pc \in {"send", "mark"}
                /\ sweep'[g].pc = "done" /\ ~sweep'[g].err
                /\ c \in Range(sweep[g].snap))
                 => /\ (\/ sweep'[g].failed = 0
                        \/ PositionIn(sweep[g].snap, c)
                             <= sweep'[g].failed * manager[g].batchSize)
                         => \E k \in 1..Len(sweep[g].sent) :
                              c \in Range(sweep[g].sent[k])
                    /\ sweep'[g].failed = 0 => store'[c].uploaded]_vars

\* C18 witness: no record was left by an earlier session; a forceUpload
\* that found the guard free and a record pending took a snapshot of one
\* record, and a record whose immediate upload was dropped is uploaded: it
\* was dropped before the sweep acquired the guard.
DroppedRecordIsSweptWitness ==
  /\ manager[cur].strategy = "immediate"
  /\ DOMAIN store \subseteq Ids
  /\ sweep[cur].pc = "done" /\ sweep[cur].n = 1
  /\ \E c \in dropped : store[c].uploaded /\ c \in acked
  /\ \E f \in ForceIds :
       forceCall[f].pc = "resolved" /\ forceCall[f].acquired /\ forceCall[f].had

\* the guard of manager g was held and the step left alone the guard, the
\* sweeps, the sink calls and what the sink acknowledged
DroppedAt(g) ==
  /\ isUploading[g]
  /\ isUploading' = isUploading
  /\ sweep' = sweep
  /\ acked' = acked
  /\ ActiveSinkCalls' = ActiveSinkCalls

\* C19: a trigger that arrives while the guard of its manager is set is
\* dropped: the immediate upload of a record just saved resolves its call
\* at once, a forceUpload resolves at once, an idle fire starts nothing;
\* each leaves the guard set, starts no sink call, reads no snapshot and
\* changes no record; and the step that clears the guard leaves no attempt
\* of that manager in progress (nothing is replayed).
TriggerDroppedWhileGuardSet ==
  [][/\ \A c \in Ids :
          (/\ logCall[c].pc = "save" /\ logCall[c].via = "handleNewLog"
           /\ c \in DOMAIN store'
           /\ manager[logCall[c].gen].strategy = "immediate"
           /\ isUploading[logCall[c].gen])
            => /\ DroppedAt(logCall[c].gen)
               /\ logCall'[c].pc = "resolved"
               /\ store' = saveLog(store, LogEntry(c))
     /\ \A f \in ForceIds :
          (/\ forceCall[f].pc = "idle" /\ forceCall'[f].pc # "idle"
           /\ isUploading[cur])
            => /\ DroppedAt(cur)
               /\ forceCall'[f].pc = "resolved"
               /\ store' = store /\ logCall' = logCall
     /\ \A g \in Gens :
          /\ (/\ idleTimer[g] /\ ~idleTimer'[g]
              /\ ~isIdle[g] /\ onIdleCallback[g]
              /\ isUploading[g])
               => /\ DroppedAt(g)
                  /\ store' = store /\ logCall' = logCall
                  /\ forceCall' = forceCall
          /\ (isUploading[g] /\ ~isUploading'[g])
               => /\ sweep'[g].pc \in {"none", "done"}
                  /\ \A c \in Ids :
                       logCall'[c].gen = g
                         => logCall'[c].pc \notin {"send", "mark"}
                  /\ \A f \in ForceIds : forceCall'[f].pc # "run"]_vars

\* C19 witness: a forceUpload met the held guard with a record pending and
\* resolved without acquiring it; the guard has cleared since, every call
\* has settled without sink or store failure, no attempt is in progress and
\* a record is still un-uploaded.
TriggerDroppedWhileGuardSetWitness ==
  /\ EndpointAndNoFault
  /\ \E f \in ForceIds :
       /\ forceCall[f].pc = "resolved"
       /\ ~forceCall[f].acquired
       /\ forceCall[f].had
  /\ ~isUploading[cur]
  /\ sweep[cur].pc \in {"none", "done"}
  /\ AllSettled
  /\ Unuploaded # {}

\* the upload attempts of manager g that have set the guard and not ended
AttemptsInProgress(g) ==
  Cardinality({c \in Ids : logCall[c].gen = g
                            /\ logCall[c].pc \in {"send", "mark"}})
    + (IF sweep[g].pc \in {"read", "send", "mark"} THEN 1 ELSE 0)

\* C20: the guard is checked and set in one step, so it is set exactly
\* while one attempt of its manager is in progress, never by two; and,
\* the awaited operations settling, a set guard is eventually cleared,
\* however the attempt ends.
GuardAlwaysReleased ==
  /\ [](\A g \in Gens :
          AttemptsInProgress(g) = (IF isUploading[g] THEN 1 ELSE 0))
  /\ \A g \in Gens : isUploading[g] ~> ~isUploading[g]

\* C20 witness: under the immediate strategy an upload ended without
\* marking its record (the sink failed or markAsUploaded rejected), a
\* forceUpload sweep ended in a store exception, and the guard is clear.
GuardAlwaysReleasedWitness ==
  /\ manager[cur].strategy = "immediate"
  /\ \E c \in Ids :
       /\ logCall[c].pc = "resolved" /\ c \notin dropped
       /\ c \in DOMAIN store /\ ~store[c].uploaded
  /\ sweep[cur].pc = "done" /\ sweep[cur].err
  /\ ~isUploading[cur]

\* a sink call of manager g settles with failure in this step
SinkFails(g) ==
  /\ acked' = acked
  /\ \/ sweep[g].pc = "send" /\ sweep'[g].pc = "done" /\ sweep'[g].failed # 0
     \/ \E c \in Ids : /\ logCall[c].gen = g
                        /\ logCall[c].pc = "send"
                        /\ logCall'[c].pc # "send"

\* C21: a failed sink call deletes and marks nothing; no step of the upload
\* path removes a record, and a record becomes uploaded only in a mark step
\* of a batch the sink acknowledged; so an un-uploaded record, a failed one
\* included, is in the snapshot of every sweep that reads, however many
\* sweeps have failed before.
FailedRecordStaysPending ==
  [][/\ \A g \in Gens : SinkFails(g) => store' = store
     /\ \A x \in DOMAIN store :
          /\ x \in DOMAIN store'
          /\ store'[x].timestamp = store[x].timestamp
          /\ (~store[x].uploaded /\ store'[x].uploaded)
               => /\ x \in acked
                  /\ \/ \E g \in Gens :
                          /\ sweep[g].pc = "mark"
                          /\ x \in Range(Batch(sweep[g].snap, sweep[g].i,
                                               manager[g].batchSize))
                     \/ x \in Ids /\ logCall[x].pc = "mark"
     /\ \A g \in Gens :
          (sweep[g].pc = "read" /\ sweep'[g].pc = "send")
            => Range(sweep'[g].snap) = {x \in DOMAIN store : ~store[x].uploaded}
    ]_vars

\* C21 witness: under the immediate strategy the sink failed on a call's
\* upload (the call resolved, was not dropped and its record was never
\* acknowledged), and a later forceUpload sweep is sending a batch of a
\* snapshot that holds the record.
FailedRecordStaysPendingWitness ==
  /\ manager[cur].strategy = "immediate"
  /\ sweep[cur].pc = "send"
  /\ \E c \in Ids :
       /\ logCall[c].pc = "resolved" /\ c \notin dropped /\ c \notin acked
       /\ c \in Range(sweep[cur].snap)
       /\ ~store[c].uploaded

\* C22: an expiry sweep with cutoff c deletes only records whose timestamp
\* is strictly less than c: a record with timestamp >= c survives the step
\* unchanged.
ExpiryKeepsRecordsAtCutoff ==
  [][\A c \in cleanups \ cleanups' :
       \A x \in DOMAIN store :
         store[x].timestamp >= c
           => x \in DOMAIN store' /\ store'[x] = store[x]]_vars

\* C23: while the configured retention is 0 no timer of the cleanup manager
\* is alive and no cleanupExpiredLogs call is started.
NoExpiryWhenRetentionZero ==
  [][config'.logExpiration = 0
       => liveIntervals' = <<>> /\ cleanups' \subseteq cleanups]_vars

\* C24: in every step a record that stays in the store keeps its key and
\* its timestamp, and its uploaded flag, once true, stays true, whatever
\* the step is: a save, a mark, a step of a sweep or a reconfiguration.
UploadedFlagIsMonotonic ==
  [][\A x \in DOMAIN store \cap DOMAIN store' :
       /\ store[x].uploaded => store'[x].uploaded
       /\ store'[x].timestamp = store[x].timestamp]_vars

\* C24 witness: the Logger was reconfigured while a sweep of its first
\* manager was under way; the sweeps of both managers took the same
\* one-record snapshot, both were acknowledged and both marked the record,
\* which is uploaded.
UploadedFlagIsMonotonicWitness ==
  /\ cur > 0
  /\ \A g \in {0, cur} :
       /\ sweep[g].pc = "done" /\ sweep[g].n = 1 /\ sweep[g].calls = 1
       /\ sweep[g].failed = 0 /\ ~sweep[g].err
  /\ ~faulted
  /\ \E c \in Ids : c \in DOMAIN store /\ store[c].uploaded

\* C25: for every set of ids, markAsUploaded applied twice gives the store
\* that applying it once gives; it leaves a record that is already uploaded
\* and every record outside the ids as they are; and it creates no record:
\* an id that is not in the store is skipped.
MarkAsUploadedIdempotent ==
  \A ids \in SUBSET StorageIds :
    LET once == markAsUploaded(store, ids) IN
    /\ markAsUploaded(once, ids) = once
    /\ DOMAIN once = DOMAIN store
    /\ \A x \in DOMAIN store :
         /\ (x \notin ids \/ store[x].uploaded) => once[x] = store[x]
         /\ x \in ids => once[x].uploaded

\* C25 witness: markAsUploaded has been applied to a store that holds an
\* uploaded record and an un-uploaded one and lacks one of the ids.
MarkAsUploadedIdempotentWitness ==
  /\ \E x \in DOMAIN store : store[x].uploaded
  /\ \E x \in DOMAIN store : ~store[x].uploaded
  /\ StorageIds \ DOMAIN store # {}

\* C26: a logging call that the level filter ends (a debug or trace call
\* with debugMode = false returns before the console) has its record in
\* the store when it resolves.
FilteredCallIsStored ==
  [][\A c \in Ids :
       (logCall[c].pc \in {"idle", "init"} /\ logCall'[c].pc = "resolved")
         => c \in DOMAIN store']_vars

\* the console method the documentation gives for a level
MethodOfLevel(level) ==
  IF level = "info" THEN "log" ELSE level

\* C27: in the step in which a logging call passes the init check, in debug
\* mode the console receives one print, with the method of the call's
\* level; outside debug mode an info, warn or error call (the call goes on
\* to the store) prints with the method of its level and a debug or trace
\* call (the call returns) leaves the console alone; no other step prints.
ConsoleOutputByLevel ==
  [][/\ \A c \in Ids :
          (logCall[c].pc \in {"idle", "init"}
             /\ logCall'[c].pc \in {"save", "resolved"})
            => /\ logCall[c].pc = "init"
                    => \/ console' = [level |-> logCall[c].level,
                                      method |-> MethodOfLevel(logCall[c].level)]
                       \/ /\ ~config.debugMode
                          /\ logCall[c].level \in {"debug", "trace"}
               /\ IF config.debugMode \/ logCall'[c].pc = "save"
                  THEN /\ console' # NoPrint
                       /\ console'.level \in AllLevels
                       /\ console'.method = MethodOfLevel(console'.level)
                       /\ ~config.debugMode
                            => console'.level \in {"info", "warn", "error"}
                  ELSE console' = console
     /\ console' # console
          => \E c \in Ids :
               /\ logCall[c].pc \in {"idle", "init"}
               /\ logCall'[c].pc \in {"save", "resolved"}]_vars

\* C27 witness: outside debug mode the latest print went to console.warn
\* and a call has since returned at the level filter: it resolved with no
\* record in the store and no failure.
ConsoleOutputByLevelWitness ==
  /\ ~config.debugMode
  /\ console = [level |-> "warn", method |-> "warn"]
  /\ ~faulted
  /\ \E c, d \in Ids :
       /\ c < d
       /\ logCall[c].pc = "resolved" /\ c \in DOMAIN store
       /\ logCall[d].pc = "resolved" /\ d \notin DOMAIN store

\* C28: while the manager's uploader has no endpoint, every uploadLogs call
\* resolves to false whatever the network would answer (the call does not
\* depend on it), no markAsUploaded follows, no record leaves the store and
\* no record is or becomes uploaded.
NoEndpointNeverUploads ==
  [][manager[cur].serverUrl = ""
       => /\ DOMAIN store \subseteq DOMAIN store'
          /\ \A x \in DOMAIN store' : ~store'[x].uploaded
          /\ acked' = {}
          /\ \A g \in Gens :
               (sweep[g].pc = "send" /\ sweep'[g] # sweep[g])
                 => /\ \A net \in NetOutcomes :
                         ~uploadLogs(manager[g].serverUrl,
                                     Batch(sweep[g].snap, sweep[g].i,
                                           manager[g].batchSize), net)
                    /\ sweep'[g].pc # "mark"
                    /\ sweep'[g].pc = "done" => sweep'[g].failed > 0
          /\ \A c \in Ids :
               (logCall[c].pc = "send" /\ logCall'[c] # logCall[c])
                 => /\ \A net \in NetOutcomes :
                         ~uploadLogs(manager[logCall[c].gen].serverUrl,
                                     <<c>>, net)
                    /\ logCall'[c].pc # "mark"]_vars

\* C28 witness: without an endpoint a sweep over two pending records has
\* called the sink and finished with a failed batch, and both records are
\* in the store, un-uploaded.
NoEndpointNeverUploadsWitness ==
  /\ manager[cur].serverUrl = ""
  /\ sweep[cur].pc = "done"
  /\ sweep[cur].n = 2
  /\ sweep[cur].calls >= 1
  /\ sweep[cur].failed > 0
  /\ Cardinality(Unuploaded) >= 2
  /\ Uploaded = {}

\* C29: an uploadLogs call on a non-empty batch resolves to a boolean
\* whatever happens to the request: false when fetch rejects, when
\* JSON.stringify throws and when the response status is not a success, and
\* true only when an endpoint is configured and the response is a success.
UploadLogsNeverThrows ==
  (upload # NoUpload /\ Len(upload.logs) > 0)
    => /\ upload.result \in BOOLEAN
       /\ upload.net \in {"error", "serialize", "status"} => ~upload.result
       /\ upload.result => (upload.net = "ok" /\ upload.serverUrl # "")
       /\ (upload.net = "ok" /\ upload.serverUrl # "") => upload.result

\* C29 witness: a batch of two records was sent to a configured endpoint,
\* JSON.stringify threw, and the call resolved to false.
UploadLogsNeverThrowsWitness ==
  /\ upload.serverUrl # ""
  /\ Len(upload.logs) = 2
  /\ upload.net = "serialize"
  /\ upload.result = FALSE

\* C30: when the getUnuploadedLogs of a sweep (an idle fire or a forceUpload)
\* resolves while the store holds no un-uploaded record, the sweep ends in
\* that step: it has made no sink call, no record and no acknowledgement has
\* changed, nothing has failed, the guard is clear and the forceUpload call
\* that started it has resolved.
EmptySweepIsNoOp ==
  [][\A g \in Gens :
       (/\ sweep[g].pc = "read"
        /\ sweep'[g] # sweep[g]
        /\ ~sweep'[g].err
        /\ \A x \in DOMAIN store : store[x].uploaded)
         => /\ sweep'[g].pc = "done"
            /\ sweep'[g].n = 0
            /\ sweep'[g].calls = 0
            /\ store' = store
            /\ acked' = acked
            /\ logCall' = logCall
            /\ faulted' = faulted
            /\ ~isUploading'[g]
            /\ sweep[g].owner # 0
                 => forceCall'[sweep[g].owner].pc = "resolved"]_vars

\* C30 witness: every record of the store is uploaded and a forceUpload that
\* acquired the guard and found nothing pending has resolved: its sweep is
\* done with no record read, no sink call and no failure, and the guard is
\* clear.
EmptySweepIsNoOpWitness ==
  /\ Cardinality(Uploaded) >= 2
  /\ Unuploaded = {}
  /\ sweep[cur].pc = "done"
  /\ sweep[cur].n = 0
  /\ sweep[cur].calls = 0
  /\ ~sweep[cur].err
  /\ ~isUploading[cur]
  /\ \E f \in ForceIds :
       /\ forceCall[f].pc = "resolved"
       /\ forceCall[f].acquired
       /\ ~forceCall[f].had

\* C31: under the idle strategy a step of a handleNewLog call leaves the
\* guard and the sweeps alone and takes the call neither to the sink nor to
\* markAsUploaded; the save adds the record, un-uploaded, and changes no
\* other record; acknowledgements and uploaded flags change only in the
\* steps of a sweep, which an idle fire or a forceUpload started.
IdleArrivalOnlyPersists ==
  [][/\ \A c \in Ids :
          (logCall'[c] # logCall[c] /\ manager[logCall'[c].gen].strategy = "idle")
            => /\ isUploading' = isUploading
               /\ sweep' = sweep
               /\ acked' = acked
               /\ logCall'[c].pc \notin {"send", "mark"}
               /\ \A x \in DOMAIN store : x \in DOMAIN store' /\ store'[x] = store[x]
               /\ DOMAIN store' \subseteq DOMAIN store \cup {c}
               /\ c \in DOMAIN store' \ DOMAIN store => ~store'[c].uploaded
     /\ (manager[cur].strategy = "idle"
           /\ (acked' # acked \/ Uploaded' # Uploaded))
          => \E g \in Gens :
               /\ sweep[g].pc \in {"send", "mark"}
               /\ sweep'[g] # sweep[g]]_vars

\* C31 witness: under the idle strategy two handleNewLog calls have
\* resolved with their records stored and un-uploaded, no sweep has started
\* and the guard is clear.
IdleArrivalOnlyPersistsWitness ==
  /\ manager[cur].strategy = "idle"
  /\ \E c, d \in Ids :
       /\ c # d
       /\ logCall[c].pc = "resolved" /\ logCall[d].pc = "resolved"
       /\ {c, d} \subseteq Unuploaded
  /\ sweep[cur].pc = "none"
  /\ ~isUploading[cur]
  /\ acked = {}

\* C32: every record of a sink call that is in flight or was made by a
\* sweep in progress, and every record the sink has acknowledged, is in the
\* store: it was saved before the call started; a record whose saveLog
\* failed is in no sink call, in no snapshot and is never acknowledged.
PersistFirst ==
  /\ \A c \in Ids : logCall[c].pc \in {"send", "mark"} => c \in DOMAIN store
  /\ \A g \in Gens :
       /\ Range(sweep[g].snap) \subseteq DOMAIN store
       /\ \A k \in 1..Len(sweep[g].sent) :
            Range(sweep[g].sent[k]) \subseteq DOMAIN store
  /\ acked \subseteq DOMAIN store
  /\ \A c \in Ids :
       (logCall[c].pc \in {"resolved", "rejected"} /\ c \notin DOMAIN store)
         => /\ c \notin acked
            /\ \A g \in Gens : c \notin Range(sweep[g].snap)

\* C32 witness: the saveLog of one handleNewLog call failed and the call has
\* settled with no record stored, while the record of another call, saved,
\* is in a sink call in flight.
PersistFirstWitness ==
  \E c, d \in Ids :
    /\ logCall[c].pc \in {"resolved", "rejected"}
    /\ c \notin DOMAIN store
    /\ ActiveSinkCalls = 1
    /\ \/ logCall[d].pc = "send"
       \/ \E g \in Gens : sweep[g].pc = "send" /\ d \in Range(sweep[g].snap)
    /\ d \in DOMAIN store

\* the configuration with exactly the fields of partial replaced
WithFieldsReplaced(before, partial) ==
  [k \in DOMAIN before |->
     IF k \in DOMAIN partial THEN partial[k] ELSE before[k]]

\* C33: after every step, once updateConfig(partial) has been called the
\* Logger's configuration is the configuration before the call with exactly
\* the fields of partial replaced, and so is the object a getConfig has just
\* returned; a write to the returned object changes that object and leaves
\* the Logger's configuration as it was.
UpdateConfigReplacesNamedFields ==
  [][/\ updates' > 0
          => config' = WithFieldsReplaced(configCall'.before,
                                          configCall'.partial)
     /\ configCall'.op = "getConfig"
          => /\ configCall'.returned = config'
             /\ updates' > 0
                  => configCall'.returned =
                       WithFieldsReplaced(configCall'.before,
                                          configCall'.partial)
     /\ (configCall'.op = "write" /\ configCall' # configCall)
          => /\ config' = config
             /\ \E k \in DOMAIN config :
                  \A j \in DOMAIN config \ {k} :
                    configCall'.returned[j] = configCall.returned[j]]_vars

\* C33 witness: updateConfig replaced two fields of a configuration whose
\* other fields differ from the defaults, getConfig returned the result,
\* and a write has since changed the returned object, which now differs
\* from the Logger's configuration.
UpdateConfigReplacesNamedFieldsWitness ==
  /\ updates > 0
  /\ DOMAIN configCall.partial = {"serverUrl", "uploadLogs"}
  /\ config.serverUrl # configCall.before.serverUrl
  /\ config.uploadLogs # configCall.before.uploadLogs
  /\ config.batchSize # DEFAULT_CONFIG.batchSize
  /\ ~config.debugMode
  /\ configCall.op = "write"
  /\ configCall.returned.debugMode
  /\ configCall.returned.serverUrl = config.serverUrl

\* C34: when the saveLog of a handleNewLog call settles while the store
\* holds a record with the call's id, the call rejects in that step, the
\* store is unchanged (the existing record keeps its fields, uploaded
\* included), and no upload starts: the guard, the sweeps and the
\* acknowledgements are unchanged and the call is not at the sink.
DuplicateIdIsRejected ==
  [][\A c \in Ids :
       (/\ logCall[c].pc = "save"
        /\ logCall'[c] # logCall[c]
        /\ c \in DOMAIN store)
         => /\ logCall'[c].pc = "rejected"
            /\ store' = store
            /\ isUploading' = isUploading
            /\ sweep' = sweep
            /\ acked' = acked
            /\ dropped' = dropped]_vars

\* C34 witness: the record an earlier session left was uploaded by a sweep;
\* a handleNewLog call with the same id has been rejected and the record is
\* still uploaded; a call with a new id has been saved.
DuplicateIdIsRejectedWitness ==
  \E c, d \in Ids :
    /\ c \in DuplicateIds
    /\ logCall[c].pc = "rejected"
    /\ c \in DOMAIN store /\ store[c].uploaded
    /\ d \notin DuplicateIds
    /\ logCall[d].pc = "resolved"
    /\ d \in DOMAIN store

\* C35: a sweep starts the sink call for its next batch only in the step in
\* which markAsUploaded for the batch before it completes without failure,
\* that batch having been sent with success: after the step its records are
\* uploaded and the one sink call in flight for the sweep is the new one; a
\* step in which markAsUploaded fails ends the sweep with no batch added.
SweepStepsAreSequential ==
  [][\A g \in Gens :
       /\ (/\ sweep[g].pc \in {"send", "mark"}
           /\ sweep'[g].pc = "send"
           /\ sweep'[g] # sweep[g])
            => /\ sweep[g].pc = "mark"
               /\ sweep[g].success
               /\ ~sweep'[g].err
               /\ sweep'[g].sent =
                    Append(sweep[g].sent,
                           Batch(sweep[g].snap, sweep'[g].i,
                                 manager[g].batchSize))
               /\ sweep'[g].i = sweep[g].i + manager[g].batchSize
               /\ Range(sweep[g].sent[Len(sweep[g].sent)]) \subseteq Uploaded'
       /\ (sweep[g].pc = "mark" /\ sweep'[g].err)
            => /\ sweep'[g].pc = "done"
               /\ sweep'[g].calls = Len(sweep[g].sent)
               /\ ~isUploading'[g]]_vars

\* C35 witness: the second sink call of a sweep is in flight and the
\* records of its first batch are all uploaded, those of the second are not.
SweepStepsAreSequentialWitness ==
  /\ sweep[cur].pc = "send"
  /\ Len(sweep[cur].sent) = 2
  /\ Range(sweep[cur].sent[1]) \subseteq Uploaded
  /\ Range(sweep[cur].sent[2]) \subseteq Unuploaded
  /\ Range(sweep[cur].sent[2]) # {}
  /\ ActiveSinkCalls = 1

\* markAsUploaded for record x is still to complete
MarkPending(x) ==
  \/ x \in Ids /\ logCall[x].pc = "mark"
  \/ \E g \in Gens :
       /\ sweep[g].pc = "mark"
       /\ x \in Range(Batch(sweep[g].snap, sweep[g].i, manager[g].batchSize))

\* no markAsUploaded has failed: every record the sink has acknowledged is
\* uploaded or is about to be marked
NoMarkFailure == \A x \in acked : store[x].uploaded \/ MarkPending(x)

\* C36: as long as no markAsUploaded has failed, a sink call that returns
\* success contains no record that an earlier sink call delivered.
DeliveredRecordNeverResent ==
  [][NoMarkFailure
       => /\ \A g \in Gens :
               (sweep[g].pc = "send" /\ sweep'[g].pc = "mark")
                 => Range(Batch(sweep[g].snap, sweep[g].i,
                                manager[g].batchSize)) \cap acked = {}
          /\ \A c \in Ids :
               (logCall[c].pc = "send" /\ logCall'[c].pc = "mark")
                 => c \notin acked]_vars

\* C36 witness: under the immediate strategy, with a call dropped at the
\* guard and no failure, three or more records have each been delivered
\* (by the calls and by a sweep) and all are uploaded.
DeliveredRecordNeverResentWitness ==
  /\ manager[cur].strategy = "immediate"
  /\ ~faulted
  /\ dropped # {}
  /\ sweep[cur].pc = "done" /\ sweep[cur].calls >= 1
  /\ \E c \in Ids \ dropped : logCall[c].pc = "resolved" /\ c \in acked
  /\ Cardinality(acked) >= 3
  /\ acked = DOMAIN store
  /\ Uploaded = DOMAIN store

\* the records of the sink call manager g has in flight
InFlightOf(g) ==
  UNION {Range(Batch(sweep[h].snap, sweep[h].i, manager[h].batchSize)) :
           h \in {h \in {g} : sweep[h].pc = "send"}}
    \cup {c \in Ids : logCall[c].pc = "send" /\ logCall[c].gen = g}

\* C37: while the Logger is reconfigured, the sink calls in flight belong to
\* one manager: the manager updateConfig created has none in flight while
\* the manager it replaced still has one, so no record is in the calls of
\* both.
GuardSurvivesReconfiguration ==
  \A g, h \in Gens :
    g < h => (InFlightOf(g) = {} \/ InFlightOf(h) = {})

\* C38: at most one setInterval timer of the CleanupManager is alive, and
\* none is once the Logger has been destroyed.
AtMostOneCleanupTimer ==
  /\ Len(liveIntervals) <= 1
  /\ (torn[cur] /\ ~initialized) => liveIntervals = <<>>

\* C39: under the idle strategy with an endpoint, without forceUpload, a
\* record that handleNewLog has saved is eventually marked uploaded, unless
\* the sink or a store operation fails.
IdleTriggersUploadEveryRecord ==
  \A c \in Ids : (c \in DOMAIN store) ~> (c \in Uploaded \/ faulted)

\* C40: when markAsUploaded completes for a batch of which a record has been
\* deleted since the sweep read it, the store gains no record: the records
\* of the batch still present become uploaded and nothing else changes; no
\* failure is recorded; the sweep goes on to its next batch if one remains
\* and otherwise ends; a sweep that ends leaves the guard clear.
DeletedRecordMarkIsNoOp ==
  [][\A g \in Gens :
       LET b == manager[g].batchSize
           ids == Range(Batch(sweep[g].snap, sweep[g].i, b))
       IN /\ (/\ sweep[g].pc = "mark"
               /\ sweep'[g] # sweep[g]
               /\ ~sweep'[g].err
               /\ ~(ids \subseteq DOMAIN store))
               => /\ DOMAIN store' = DOMAIN store
                  /\ \A x \in DOMAIN store :
                       /\ store'[x].timestamp = store[x].timestamp
                       /\ store'[x].uploaded = (store[x].uploaded \/ x \in ids)
                  /\ faulted' = faulted
                  /\ IF sweep[g].i + b < Len(sweep[g].snap)
                     THEN /\ sweep'[g].pc = "send"
                          /\ sweep'[g].i = sweep[g].i + b
                          /\ Len(sweep'[g].sent) = Len(sweep[g].sent) + 1
                     ELSE sweep'[g].pc = "done"
          /\ (sweep[g].pc # "done" /\ sweep'[g].pc = "done")
               => ~isUploading'[g]]_vars

\* C40 witness: a sweep has ended without failure after two or more sink
\* calls; markAsUploaded found a record of its snapshot deleted, which is
\* still absent, and marked another, which is uploaded; the guard is clear.
DeletedRecordMarkIsNoOpWitness ==
  /\ sweep[cur].pc = "done"
  /\ ~sweep[cur].err /\ sweep[cur].failed = 0
  /\ sweep[cur].calls >= 2
  /\ sweep[cur].skipped # {}
  /\ sweep[cur].skipped \cap DOMAIN store = {}
  /\ Uploaded # {}
  /\ ~isUploading[cur]
  /\ ~faulted

====
